---- MODULE Spec2Model ----
(***************************************************************************)
(* A model of merge_app.py: the merge engine merge_docx_files and the Tk   *)
(* shell DocxMergerApp.start_merge_process, over a small file system.      *)
(*                                                                         *)
(* Strings are sequences of characters, one TLA+ string per character, so  *)
(* that lower(), endswith(), "in", replace() and os.path.join are computed *)
(* on characters.  The two CJK characters the code tests for, U+6210 and   *)
(* U+529F, are written "cheng" and "gong".  A literal fragment of a        *)
(* message that contains neither of them and is never inspected is one     *)
(* element written "<...>"; the line feed is "LF".                         *)
(***************************************************************************)
EXTENDS Naturals, Integers, Sequences, FiniteSets, TLC

VARIABLES
  dirs,                 \* file system: the set of existing directories (paths)
  files,                \* file system: path -> [ok, body] of every regular file
  input_dir_var,        \* tk.StringVar of the input folder entry
  output_dir_var,       \* tk.StringVar of the output folder entry
  output_filename_var,  \* tk.StringVar of the output filename entry
  status_var,           \* tk.StringVar of the status line
  stack,                \* activation records of start_merge_process, innermost last
  dialog,               \* the modal messagebox currently open, or NoDialog
  pending,              \* <ButtonRelease> events on the merge button not yet dispatched
  clicks,               \* number of clicks made so far
  edits,                \* number of changes made to the three entries so far
  call,                 \* history: the last merge_docx_files call and what it returned
  run,                  \* history: the current or last start_merge_process invocation
  scans                 \* history: the folder scans done, oldest first

vars == <<dirs, files, input_dir_var, output_dir_var, output_filename_var,
          status_var, stack, dialog, pending, clicks, edits, call, run, scans>>

shellVars == <<input_dir_var, output_dir_var, output_filename_var, status_var,
               stack, dialog, pending, clicks, edits, run, scans>>

-----------------------------------------------------------------------------
(* Bounds *)

MaxClicks == 2      \* clicks on the merge button in one behaviour
MaxEdits == 1       \* changes of the three entries in one behaviour
MaxCalls == 1       \* direct calls of merge_docx_files in one behaviour
MaxSrcLen == 3      \* length of a directly supplied source list

-----------------------------------------------------------------------------
(* Characters and strings *)

\* The characters used, in ascending code point order.
Alphabet ==
  << "'", ".", "/", "B", "C", "D", "M", "O", "X", "_",
     "a", "b", "c", "d", "e", "g", "i", "m", "n", "o", "r", "s", "t", "u", "w", "x",
     "gong", "cheng" >>

\* ord(c), up to an order isomorphism on the characters used.
Ord(c) == CHOOSE i \in 1..Len(Alphabet) : Alphabet[i] = c

\* str.lower() on one character.
LowerChar(c) ==
  CASE c = "B" -> "b"
    [] c = "C" -> "c"
    [] c = "D" -> "d"
    [] c = "M" -> "m"
    [] c = "O" -> "o"
    [] c = "X" -> "x"
    [] OTHER -> c

\* str.lower()
Lower(s) == [i \in 1..Len(s) |-> LowerChar(s[i])]

\* str.endswith(suffix)
EndsWith(s, suffix) ==
  /\ Len(s) >= Len(suffix)
  /\ SubSeq(s, Len(s) - Len(suffix) + 1, Len(s)) = suffix

\* sub in s
Contains(s, sub) ==
  \E i \in 1..(Len(s) - Len(sub) + 1) : SubSeq(s, i, i + Len(sub) - 1) = sub

\* s.replace("\n", " ")
ReplaceLF(s) == [i \in 1..Len(s) |-> IF s[i] = "LF" THEN " " ELSE s[i]]

\* str(n) for a natural number
RECURSIVE Str(_)
Str(n) ==
  LET digit == <<"0", "1", "2", "3", "4", "5", "6", "7", "8", "9">>
  IN  IF n < 10 THEN <<digit[n + 1]>> ELSE Str(n \div 10) \o <<digit[(n % 10) + 1]>>

\* a < b for strings, as Python compares them: by code point, a prefix first.
RECURSIVE StrLess(_, _)
StrLess(a, b) ==
  IF b = <<>> THEN FALSE
  ELSE IF a = <<>> THEN TRUE
  ELSE IF a[1] # b[1] THEN Ord(a[1]) < Ord(b[1])
  ELSE StrLess(Tail(a), Tail(b))

DOCX == <<".", "d", "o", "c", "x">>
SUCCESS == <<"cheng", "gong">>

\* DEFAULT_OUTPUT_FILENAME
DEFAULT_OUTPUT_FILENAME ==
  <<"m", "e", "r", "g", "e", "d", "_", "d", "o", "c", "u", "m", "e", "n", "t">> \o DOCX

\* DEFAULT_INPUT_DIR and DEFAULT_OUTPUT_DIR, relative to SCRIPT_DIR.
DEFAULT_INPUT_DIR == <<"i", "n">>
DEFAULT_OUTPUT_DIR == <<"o", "u", "t">>

-----------------------------------------------------------------------------
(* Paths: os.path on a POSIX system, relative to the working directory *)

\* Index of the last "/" of p, 0 when there is none: p.rfind("/") + 1.
RECURSIVE RFindSep(_)
RFindSep(p) ==
  IF p = <<>> THEN 0
  ELSE IF p[Len(p)] = "/" THEN Len(p)
  ELSE RFindSep(SubSeq(p, 1, Len(p) - 1))

\* p.rstrip("/")
RECURSIVE RStripSep(_)
RStripSep(p) ==
  IF p # <<>> /\ p[Len(p)] = "/" THEN RStripSep(SubSeq(p, 1, Len(p) - 1)) ELSE p

\* os.path.split(p)
Split(p) ==
  LET i == RFindSep(p)
      head == SubSeq(p, 1, i)
      tail == SubSeq(p, i + 1, Len(p))
  IN  [head |-> IF RStripSep(head) # <<>> THEN RStripSep(head) ELSE head,
       tail |-> tail]

\* os.path.join(a, b)
Join(a, b) ==
  IF b # <<>> /\ b[1] = "/" THEN b
  ELSE IF a = <<>> \/ a[Len(a)] = "/" THEN a \o b
  ELSE a \o <<"/">> \o b

\* The file system object a path names: trailing separators do not matter.
\* The working directory is the empty path.
Resolve(p) == RStripSep(p)

-----------------------------------------------------------------------------
(* The file system *)

\* Directories in which nothing can be created or written (no write permission).
ReadOnlyDirs == {<<"r", "o">>}

\* Directories that cannot be listed (no read permission).
UnreadableDirs == {<<"n", "r">>}

\* os.path.exists(p)
Exists(p, D, F) == p # <<>> /\ (Resolve(p) \in D \/ Resolve(p) \in DOMAIN F)

\* os.path.isdir(p)
IsDir(p, D) == p # <<>> /\ Resolve(p) \in D

\* os.mkdir(p): the directories afterwards and the exception raised, if any.
Mkdir(p, D, F) ==
  LET parent == Split(Resolve(p)).head
  IN  IF Exists(p, D, F) THEN [dirs |-> D, raised |-> "FileExistsError"]
      ELSE IF p = <<>> \/ parent \notin D \/ parent \in ReadOnlyDirs
        THEN [dirs |-> D, raised |-> "OSError"]
      ELSE [dirs |-> D \cup {Resolve(p)}, raised |-> "none"]

\* os.makedirs(name, exist_ok=True)
RECURSIVE Makedirs(_, _, _)
Makedirs(name, D, F) ==
  LET s1 == Split(name)
      s == IF s1.tail = <<>> THEN Split(s1.head) ELSE s1
      sub == IF s.head # <<>> /\ s.tail # <<>> /\ ~Exists(s.head, D, F)
               THEN Makedirs(s.head, D, F)
               ELSE [dirs |-> D, raised |-> "none"]
  IN  IF sub.raised = "OSError" THEN sub
      ELSE LET m == Mkdir(name, sub.dirs, F)
           IN  IF m.raised # "none" /\ IsDir(name, sub.dirs)
                 THEN [dirs |-> sub.dirs, raised |-> "none"]
                 ELSE [dirs |-> m.dirs,
                       raised |-> IF m.raised = "none" THEN "none" ELSE "OSError"]

\* The names os.listdir(p) returns, as a set (it returns them in any order).
ListDir(p, D, F) ==
  {Split(q).tail : q \in {r \in (D \cup DOMAIN F) \ {<<>>} : Split(r).head = Resolve(p)}}

\* Whether os.listdir(p) raises.
ListDirRaises(p, D) == ~IsDir(p, D) \/ Resolve(p) \in UnreadableDirs

\* The orders in which os.listdir may return the names S.
Orders(S) ==
  {s \in [1..Cardinality(S) -> S] : \A x \in S : \E i \in 1..Cardinality(S) : s[i] = x}

\* list.insert into an ascending list, keeping it ascending.
RECURSIVE Insert(_, _)
Insert(x, s) ==
  IF s = <<>> THEN <<x>>
  ELSE IF StrLess(x, s[1]) THEN <<x>> \o s
  ELSE <<s[1]>> \o Insert(x, Tail(s))

\* sorted(names)
RECURSIVE Sorted(_)
Sorted(names) == IF names = <<>> THEN <<>> ELSE Insert(names[1], Sorted(Tail(names)))

-----------------------------------------------------------------------------
(* Documents: python-docx and docxcompose, by their contract *)

PAGE_BREAK == "PB"

\* What is left of a target whose write failed half way.
Truncated == [ok |-> FALSE, body |-> <<>>]

\* Whether Document(path) opens a document.
Opens(path, F) == Resolve(path) \in DOMAIN F /\ F[Resolve(path)].ok

\* str(e) of the exception Document(path) raises on something that is no package.
OpenDiagnostic(path) == <<"<Package not found at >", "'">> \o path \o <<"'">>

\* The body of Document(path).
Document(path, F) == F[Resolve(path)].body

\* The body of page_break_doc: Document() with add_page_break().
PageBreakDoc == <<PAGE_BREAK>>

\* composer.append(doc) on the accumulated body.
ComposerAppend(master, doc) == master \o doc

\* Faulty variant of AppendLoop: the page break is appended after each document
\* instead of before it.
RECURSIVE AppendLoopBreakAfter(_, _, _, _)
AppendLoopBreakAfter(i, master, source_files_list, F) ==
  IF i > Len(source_files_list) THEN [raised |-> FALSE, body |-> master, diag |-> <<>>]
  ELSE IF ~Opens(source_files_list[i], F)
    THEN [raised |-> TRUE, body |-> <<>>, diag |-> OpenDiagnostic(source_files_list[i])]
  ELSE AppendLoopBreakAfter(
         i + 1,
         ComposerAppend(ComposerAppend(master, Document(source_files_list[i], F)),
                        PageBreakDoc),
         source_files_list, F)

\* Lines 45-48, from iteration i on: the body composed, or the diagnostic of the
\* first source that does not open.
RECURSIVE AppendLoop(_, _, _, _)
AppendLoop(i, master, source_files_list, F) ==
  IF i > Len(source_files_list) THEN [raised |-> FALSE, body |-> master, diag |-> <<>>]
  ELSE LET withBreak == ComposerAppend(master, PageBreakDoc)
       IN  IF ~Opens(source_files_list[i], F)
             THEN [raised |-> TRUE, body |-> <<>>,
                   diag |-> OpenDiagnostic(source_files_list[i])]
             ELSE AppendLoop(i + 1,
                             ComposerAppend(withBreak, Document(source_files_list[i], F)),
                             source_files_list, F)

\* Lines 37-48.
Compose(source_files_list, F) ==
  IF ~Opens(source_files_list[1], F)
    THEN [raised |-> TRUE, body |-> <<>>, diag |-> OpenDiagnostic(source_files_list[1])]
  ELSE IF Len(source_files_list) > 1
    THEN AppendLoop(2, Document(source_files_list[1], F), source_files_list, F)
  ELSE [raised |-> FALSE, body |-> Document(source_files_list[1], F), diag |-> <<>>]

\* composer.save(target): the files afterwards and str(e) when it raises.  The
\* target is opened for writing (created or truncated) and then written; ioError
\* is a write that fails after the open.
ComposerSave(body, target, D, F, ioError) ==
  LET t == Resolve(target)
      parent == Split(t).head
  IN  IF target = <<>> \/ parent \notin D
        THEN [raised |-> TRUE, files |-> F,
              diag |-> <<"<[Errno 2] No such file or directory: >", "'">> \o target \o <<"'">>]
      ELSE IF t \in D
        THEN [raised |-> TRUE, files |-> F,
              diag |-> <<"<[Errno 21] Is a directory: >", "'">> \o target \o <<"'">>]
      ELSE IF parent \in ReadOnlyDirs
        THEN [raised |-> TRUE, files |-> F,
              diag |-> <<"<[Errno 13] Permission denied: >", "'">> \o target \o <<"'">>]
      ELSE IF ioError
        THEN [raised |-> TRUE,
              files |-> [p \in DOMAIN F \cup {t} |-> IF p = t THEN Truncated ELSE F[p]],
              diag |-> <<"<[Errno 28] No space left on device>">>]
      ELSE [raised |-> FALSE,
            files |-> [p \in DOMAIN F \cup {t} |->
                         IF p = t THEN [ok |-> TRUE, body |-> body] ELSE F[p]],
            diag |-> <<>>]

-----------------------------------------------------------------------------
(* merge_docx_files *)

\* Faulty variant of merge_docx_files: the target is opened for writing before
\* the sources are read, so a failed merge leaves a truncated target.
MergeOpeningTargetFirst(source_files_list, target_file_path, D, F, ioError) ==
  IF source_files_list = <<>>
    THEN [message |-> <<"<Error: no .docx files to merge were found.>">>,
          files |-> F, saved |-> FALSE]
  ELSE LET c == Compose(source_files_list, F)
           s == ComposerSave(c.body, target_file_path, D, F, ioError \/ c.raised)
       IN  IF c.raised
             THEN [message |-> <<"<An error occurred while merging:>", "LF">> \o c.diag,
                   files |-> s.files, saved |-> FALSE]
           ELSE IF s.raised
             THEN [message |-> <<"<An error occurred while merging:>", "LF">> \o s.diag,
                   files |-> s.files, saved |-> FALSE]
           ELSE [message |-> SUCCESS \o <<":">> \o Str(Len(source_files_list))
                               \o <<"< documents were merged into>", "LF">>
                               \o target_file_path,
                 files |-> s.files, saved |-> TRUE]

\* The message returned, the files afterwards, and whether line 51 was reached.
merge_docx_files(source_files_list, target_file_path, D, F, ioError) ==
  IF source_files_list = <<>>
    THEN [message |-> <<"<Error: no .docx files to merge were found.>">>,
          files |-> F, saved |-> FALSE]
  ELSE IF Len(source_files_list) < 1
    THEN [message |-> <<"<Error: at least one file is needed.>">>,
          files |-> F, saved |-> FALSE]
  ELSE LET c == Compose(source_files_list, F)
       IN  IF c.raised
             THEN [message |-> <<"<An error occurred while merging:>", "LF">> \o c.diag,
                   files |-> F, saved |-> FALSE]
           ELSE LET s == ComposerSave(c.body, target_file_path, D, F, ioError)
                IN  IF s.raised
                      THEN [message |-> <<"<An error occurred while merging:>", "LF">> \o s.diag,
                            files |-> s.files, saved |-> FALSE]
                      ELSE [message |-> SUCCESS \o <<":">> \o Str(Len(source_files_list))
                                          \o <<"< documents were merged into>", "LF">>
                                          \o target_file_path,
                            files |-> s.files, saved |-> TRUE]

-----------------------------------------------------------------------------
(* The initial file system and what the user can enter *)

NEWDIR == <<"n", "e", "w">>
RO == <<"r", "o">>
NR == <<"n", "r">>

\* The entries the input folder may hold at start, with their content.  The
\* first holds a page break of its own; the last is no document although it is
\* named like one.
InputEntries ==
  { [name |-> <<"a">> \o DOCX, content |-> [ok |-> TRUE, body |-> <<"a1", PAGE_BREAK, "a2">>]],
    [name |-> <<"B", ".", "D", "O", "C", "X">>, content |-> [ok |-> TRUE, body |-> <<"b1">>]],
    [name |-> <<"n", ".", "t", "x", "t">>, content |-> [ok |-> FALSE, body |-> <<>>]],
    [name |-> SUCCESS \o DOCX, content |-> [ok |-> FALSE, body |-> <<>>]] }

\* The files of DEFAULT_INPUT_DIR when it holds the entries E.
FilesOf(E) ==
  LET paths == {Join(DEFAULT_INPUT_DIR, e.name) : e \in E}
  IN  [p \in paths |-> (CHOOSE e \in E : Join(DEFAULT_INPUT_DIR, e.name) = p).content]

\* What the user may put into the input folder entry.
InputChoices == {DEFAULT_INPUT_DIR, DEFAULT_OUTPUT_DIR, NEWDIR, NR}

\* What the user may put into the output folder entry.
OutputChoices ==
  {DEFAULT_OUTPUT_DIR, DEFAULT_INPUT_DIR, DEFAULT_INPUT_DIR \o <<"/">>,
   NEWDIR \o <<"/", "s">>, RO, RO \o <<"/", "x">>}

\* What the user may put into the output filename entry.
FilenameChoices ==
  {DEFAULT_OUTPUT_FILENAME, <<"m">>, <<"a">> \o DOCX, <<"m", ".", "D", "o", "c", "X">>,
   <<"m">> \o DOCX \o DOCX, <<"m", ".", "d", "o", "c">>}

NoDialog == [kind |-> "none", message |-> <<>>]

NoCall == [n |-> 0, source_files_list |-> <<>>, target_file_path |-> <<>>,
           before |-> <<>>, message |-> <<>>, saved |-> FALSE]

NoRun == [n |-> 0, input_path |-> <<>>, output_path |-> <<>>,
          dirs0 |-> {}, files0 |-> <<>>, events |-> <<>>, dialogs |-> <<>>,
          outcome |-> "none", status_reports_outcome |-> FALSE, ended |-> TRUE]

\* The module's top level and DocxMergerApp.__init__.
Init ==
  /\ dirs = {<<>>, DEFAULT_INPUT_DIR, DEFAULT_OUTPUT_DIR, RO, NR}
  /\ \E E \in SUBSET InputEntries : files = FilesOf(E)
  /\ input_dir_var = DEFAULT_INPUT_DIR
  /\ output_dir_var = DEFAULT_OUTPUT_DIR
  /\ output_filename_var = DEFAULT_OUTPUT_FILENAME
  /\ status_var = <<"<Please choose the folders and start merging.>">>
  /\ stack = <<>>
  /\ dialog = NoDialog
  /\ pending = 0
  /\ clicks = 0
  /\ edits = 0
  /\ call = NoCall
  /\ run = NoRun
  /\ scans = <<>>

-----------------------------------------------------------------------------
(* The user and the Tk event loop *)

Idle == stack = <<>> /\ dialog = NoDialog /\ pending = 0

\* The user presses the merge button.  While a messagebox is open it holds the
\* grab and the button cannot be pressed.
UserClick ==
  /\ clicks < MaxClicks
  /\ dialog = NoDialog
  /\ clicks' = clicks + 1
  /\ pending' = pending + 1
  /\ UNCHANGED <<dirs, files, input_dir_var, output_dir_var, output_filename_var,
                 status_var, stack, dialog, edits, call, run, scans>>

\* select_input_dir, or typing into the entry.
SetInput ==
  /\ Idle
  /\ edits < MaxEdits
  /\ edits' = edits + 1
  /\ \E p \in InputChoices \ {input_dir_var} : input_dir_var' = p
  /\ UNCHANGED <<dirs, files, output_dir_var, output_filename_var, status_var, stack,
                 dialog, pending, clicks, call, run, scans>>

\* select_output_dir, or typing into the entry.
SetOutput ==
  /\ Idle
  /\ edits < MaxEdits
  /\ edits' = edits + 1
  /\ \E p \in OutputChoices \ {output_dir_var} : output_dir_var' = p
  /\ UNCHANGED <<dirs, files, input_dir_var, output_filename_var, status_var, stack,
                 dialog, pending, clicks, call, run, scans>>

\* Typing into the filename entry.
SetFilename ==
  /\ Idle
  /\ edits < MaxEdits
  /\ edits' = edits + 1
  /\ \E n \in FilenameChoices \ {output_filename_var} : output_filename_var' = n
  /\ UNCHANGED <<dirs, files, input_dir_var, output_dir_var, status_var, stack,
                 dialog, pending, clicks, call, run, scans>>

\* The user closes the messagebox; events queued before that come first.
Dismiss ==
  /\ dialog # NoDialog
  /\ pending = 0
  /\ dialog' = NoDialog
  /\ UNCHANGED <<dirs, files, input_dir_var, output_dir_var, output_filename_var,
                 status_var, stack, pending, clicks, edits, call, run, scans>>

\* The messagebox's event loop meets a button event queued before the grab:
\* under the grab it is not delivered to the merge button.
DiscardClick ==
  /\ dialog # NoDialog
  /\ pending > 0
  /\ pending' = pending - 1
  /\ UNCHANGED <<dirs, files, input_dir_var, output_dir_var, output_filename_var,
                 status_var, stack, dialog, clicks, edits, call, run, scans>>

-----------------------------------------------------------------------------
(* DocxMergerApp.start_merge_process *)

Top == stack[Len(stack)]
Running(pc) == stack # <<>> /\ dialog = NoDialog /\ Top.pc = pc
SetTop(f) == [stack EXCEPT ![Len(stack)] = f]
Pop == SubSeq(stack, 1, Len(stack) - 1)

\* Faulty variant of NormalizeFilename: the extension is compared case-sensitively.
NormalizeCaseSensitive(output_filename) ==
  IF ~EndsWith(output_filename, DOCX) THEN output_filename \o DOCX ELSE output_filename

\* Lines 120-121.
NormalizeFilename(output_filename) ==
  IF ~EndsWith(Lower(output_filename), DOCX) THEN output_filename \o DOCX
  ELSE output_filename

\* Lines 116-121: the activation record of a new invocation.
NewFrame ==
  [pc |-> "L123",
   input_path |-> input_dir_var,
   output_path |-> output_dir_var,
   output_filename |-> NormalizeFilename(output_filename_var),
   source_files |-> <<>>,
   target_file |-> <<>>,
   result_message |-> <<>>]

NewRun ==
  [n |-> run.n + 1, input_path |-> input_dir_var, output_path |-> output_dir_var,
   dirs0 |-> dirs, files0 |-> files, events |-> <<>>, dialogs |-> <<>>,
   outcome |-> "running", status_reports_outcome |-> FALSE, ended |-> FALSE]

Event(e) == [run EXCEPT !.events = Append(@, e)]
Fail(r, outcome, kind) == [r EXCEPT !.outcome = outcome, !.dialogs = Append(@, kind)]

\* mainloop dispatches the button's command.
Dispatch ==
  /\ stack = <<>> /\ dialog = NoDialog /\ pending > 0
  /\ pending' = pending - 1
  /\ stack' = <<NewFrame>>
  /\ run' = NewRun
  /\ UNCHANGED <<dirs, files, input_dir_var, output_dir_var, output_filename_var,
                 status_var, dialog, clicks, edits, call, scans>>

\* Faulty variant of CheckInput: a missing input folder is created, as lines
\* 14-15 do for the default folders, before the error is reported.
CheckInputCreating ==
  /\ Running("L123")
  /\ IF ~IsDir(Top.input_path, dirs)
       THEN /\ dialog' = [kind |-> "showerror",
                          message |-> <<"<The input folder does not exist:>", "LF">>
                                        \o Top.input_path]
            /\ stack' = SetTop([Top EXCEPT !.pc = "return"])
            /\ run' = Fail(Event("input_missing"), "input_missing", "showerror")
            /\ dirs' = Makedirs(Top.input_path, dirs, files).dirs
       ELSE /\ stack' = SetTop([Top EXCEPT !.pc = "L127"])
            /\ run' = Event("input_is_dir")
            /\ UNCHANGED <<dialog, dirs>>
  /\ UNCHANGED <<files, input_dir_var, output_dir_var, output_filename_var,
                 status_var, pending, clicks, edits, call, scans>>

\* Lines 123-125.
CheckInput ==
  /\ Running("L123")
  /\ IF ~IsDir(Top.input_path, dirs)
       THEN /\ dialog' = [kind |-> "showerror",
                          message |-> <<"<The input folder does not exist:>", "LF">>
                                        \o Top.input_path]
            /\ stack' = SetTop([Top EXCEPT !.pc = "return"])
            /\ run' = Fail(Event("input_missing"), "input_missing", "showerror")
       ELSE /\ stack' = SetTop([Top EXCEPT !.pc = "L127"])
            /\ run' = Event("input_is_dir")
            /\ UNCHANGED dialog
  /\ UNCHANGED <<dirs, files, input_dir_var, output_dir_var, output_filename_var,
                 status_var, pending, clicks, edits, call, scans>>

\* Faulty variant of EnsureOutput: the return of line 132 is missing, so the
\* invocation goes on after the error dialog.
EnsureOutputNoReturn ==
  /\ Running("L127")
  /\ IF ~IsDir(Top.output_path, dirs)
       THEN LET m == Makedirs(Top.output_path, dirs, files)
            IN  /\ dirs' = m.dirs
                /\ stack' = SetTop([Top EXCEPT !.pc = "L134"])
                /\ IF m.raised # "none"
                     THEN /\ dialog' = [kind |-> "showerror",
                                        message |-> <<"<Cannot create the output folder:>", "LF">>
                                                      \o Top.output_path
                                                      \o <<"LF", "<OSError>">>]
                          /\ run' = Fail(Event("output_failed"), "output_failed", "showerror")
                     ELSE /\ run' = Event("output_created")
                          /\ UNCHANGED dialog
       ELSE /\ stack' = SetTop([Top EXCEPT !.pc = "L134"])
            /\ run' = Event("output_is_dir")
            /\ UNCHANGED <<dirs, dialog>>
  /\ UNCHANGED <<files, input_dir_var, output_dir_var, output_filename_var,
                 status_var, pending, clicks, edits, call, scans>>

\* Lines 127-132.
EnsureOutput ==
  /\ Running("L127")
  /\ IF ~IsDir(Top.output_path, dirs)
       THEN LET m == Makedirs(Top.output_path, dirs, files)
            IN  /\ dirs' = m.dirs
                /\ IF m.raised # "none"
                     THEN /\ dialog' = [kind |-> "showerror",
                                        message |-> <<"<Cannot create the output folder:>", "LF">>
                                                      \o Top.output_path
                                                      \o <<"LF", "<OSError>">>]
                          /\ stack' = SetTop([Top EXCEPT !.pc = "return"])
                          /\ run' = Fail(Event("output_failed"), "output_failed", "showerror")
                     ELSE /\ stack' = SetTop([Top EXCEPT !.pc = "L134"])
                          /\ run' = Event("output_created")
                          /\ UNCHANGED dialog
       ELSE /\ stack' = SetTop([Top EXCEPT !.pc = "L134"])
            /\ run' = Event("output_is_dir")
            /\ UNCHANGED <<dirs, dialog>>
  /\ UNCHANGED <<files, input_dir_var, output_dir_var, output_filename_var,
                 status_var, pending, clicks, edits, call, scans>>

\* Lines 139-141.
SelectSources(input_path, filenames) ==
  LET docx == SelectSeq(filenames, LAMBDA filename : EndsWith(Lower(filename), DOCX))
  IN  [i \in 1..Len(docx) |-> Join(input_path, docx[i])]

\* Faulty variant of ScanFolder: the names are taken in the order os.listdir
\* returned them.
ScanUnsorted(input_path, listing) == SelectSources(input_path, listing)

\* Line 138 and lines 139-141 on the order in which os.listdir returned the names.
ScanFolder(input_path, listing) == SelectSources(input_path, Sorted(listing))

\* Lines 134-144.
ListSources ==
  /\ Running("L134")
  /\ IF ListDirRaises(Top.input_path, dirs)
       THEN /\ dialog' = [kind |-> "showerror",
                          message |-> <<"<Error reading the input folder:>", "LF", "<OSError>">>]
            /\ stack' = SetTop([Top EXCEPT !.pc = "return"])
            /\ run' = Fail(Event("list_failed"), "list_failed", "showerror")
            /\ UNCHANGED scans
       ELSE /\ \E listing \in Orders(ListDir(Top.input_path, dirs, files)) :
                 /\ stack' = SetTop([Top EXCEPT !.pc = "L146",
                                                !.source_files = ScanFolder(Top.input_path, listing)])
                 /\ scans' = Append(scans,
                                    [input_path |-> Top.input_path,
                                     names |-> ListDir(Top.input_path, dirs, files),
                                     source_files |-> ScanFolder(Top.input_path, listing)])
            /\ run' = Event("listed")
            /\ UNCHANGED dialog
  /\ UNCHANGED <<dirs, files, input_dir_var, output_dir_var, output_filename_var,
                 status_var, pending, clicks, edits, call>>

\* Lines 146-147.
CheckEmpty ==
  /\ Running("L146")
  /\ IF Top.source_files = <<>>
       THEN /\ dialog' = [kind |-> "showinfo",
                          message |-> <<"<No .docx files were found in the input folder.>">>]
            /\ stack' = SetTop([Top EXCEPT !.pc = "L148"])
            /\ run' = Fail(Event("no_files"), "no_files", "showinfo")
       ELSE /\ stack' = SetTop([Top EXCEPT !.pc = "L151"])
            /\ run' = Event("nonempty")
            /\ UNCHANGED dialog
  /\ UNCHANGED <<dirs, files, input_dir_var, output_dir_var, output_filename_var,
                 status_var, pending, clicks, edits, call, scans>>

\* Lines 148-149.
NoFilesStatus ==
  /\ Running("L148")
  /\ status_var' = <<"<No .docx files found.>">>
  /\ stack' = Pop
  /\ run' = [run EXCEPT !.status_reports_outcome = TRUE, !.ended = TRUE]
  /\ UNCHANGED <<dirs, files, input_dir_var, output_dir_var, output_filename_var,
                 dialog, pending, clicks, edits, call, scans>>

\* Faulty variant of Pump: master.update() instead of update_idletasks(), which
\* dispatches every pending event, the button's command too.
PumpUpdate ==
  /\ Running("L151")
  /\ status_var' = <<"<Merging documents...>">>
  /\ IF pending > 0
       THEN /\ pending' = pending - 1
            /\ stack' = Append(SetTop([Top EXCEPT !.pc = "L156",
                                 !.target_file = Join(Top.output_path, Top.output_filename)]),
                               NewFrame)
       ELSE /\ stack' = SetTop([Top EXCEPT !.pc = "L156",
                                 !.target_file = Join(Top.output_path, Top.output_filename)])
            /\ UNCHANGED pending
  /\ UNCHANGED <<dirs, files, input_dir_var, output_dir_var, output_filename_var,
                 dialog, clicks, edits, call, run, scans>>

\* Lines 151-154.  update_idletasks runs the idle callbacks (redraws) only:
\* pending button events stay queued.
Pump ==
  /\ Running("L151")
  /\ status_var' = <<"<Merging documents...>">>
  /\ stack' = SetTop([Top EXCEPT !.pc = "L156",
                                 !.target_file = Join(Top.output_path, Top.output_filename)])
  /\ UNCHANGED <<dirs, files, input_dir_var, output_dir_var, output_filename_var,
                 dialog, pending, clicks, edits, call, run, scans>>

\* Line 156.
CallMerge ==
  /\ Running("L156")
  /\ \E ioError \in BOOLEAN :
       LET r == merge_docx_files(Top.source_files, Top.target_file, dirs, files, ioError)
       IN  /\ files' = r.files
           /\ stack' = SetTop([Top EXCEPT !.pc = "L158", !.result_message = r.message])
           /\ call' = [n |-> call.n + 1,
                       source_files_list |-> Top.source_files,
                       target_file_path |-> Top.target_file,
                       before |-> files, message |-> r.message, saved |-> r.saved]
           /\ run' = [Event("merge_called") EXCEPT
                        !.outcome = IF r.saved THEN "merged" ELSE "merge_failed"]
  /\ UNCHANGED <<dirs, input_dir_var, output_dir_var, output_filename_var, status_var,
                 dialog, pending, clicks, edits, scans>>

\* Lines 158-161.
Report ==
  /\ Running("L158")
  /\ LET kind == IF Contains(Top.result_message, SUCCESS) THEN "showinfo" ELSE "showerror"
     IN  /\ dialog' = [kind |-> kind, message |-> Top.result_message]
         /\ run' = [run EXCEPT !.dialogs = Append(@, kind)]
  /\ stack' = SetTop([Top EXCEPT !.pc = "L162"])
  /\ UNCHANGED <<dirs, files, input_dir_var, output_dir_var, output_filename_var,
                 status_var, pending, clicks, edits, call, scans>>

\* Line 162.
FinalStatus ==
  /\ Running("L162")
  /\ status_var' = ReplaceLF(Top.result_message)
  /\ stack' = Pop
  /\ run' = [run EXCEPT !.status_reports_outcome = TRUE, !.ended = TRUE]
  /\ UNCHANGED <<dirs, files, input_dir_var, output_dir_var, output_filename_var,
                 dialog, pending, clicks, edits, call, scans>>

\* Lines 125, 132 and 144: return after the error dialog is closed.
Return ==
  /\ Running("return")
  /\ stack' = Pop
  /\ run' = [run EXCEPT !.ended = TRUE]
  /\ UNCHANGED <<dirs, files, input_dir_var, output_dir_var, output_filename_var,
                 status_var, dialog, pending, clicks, edits, call, scans>>

Next ==
  \/ UserClick
  \/ SetInput
  \/ SetOutput
  \/ SetFilename
  \/ Dismiss
  \/ DiscardClick
  \/ Dispatch
  \/ CheckInput
  \/ EnsureOutput
  \/ ListSources
  \/ CheckEmpty
  \/ NoFilesStatus
  \/ Pump
  \/ CallMerge
  \/ Report
  \/ FinalStatus
  \/ Return

Spec == Init /\ [][Next]_vars

-----------------------------------------------------------------------------
(* merge_docx_files called directly, as a library function *)

\* The paths a caller may list as sources.
EnginePaths ==
  {Join(DEFAULT_INPUT_DIR, e.name) : e \in {x \in InputEntries : EndsWith(Lower(x.name), DOCX)}}

\* The source lists a caller may pass: every list of at most MaxSrcLen paths.
SourceLists == UNION {[1..n -> EnginePaths] : n \in 0..MaxSrcLen}

\* The targets a caller may pass: a new file, or one of the sources.
EngineTargets ==
  {Join(DEFAULT_OUTPUT_DIR, <<"m">> \o DOCX), Join(DEFAULT_INPUT_DIR, <<"a">> \o DOCX)}

\* One call of merge_docx_files(source_files_list, target_file_path).
EngineCall ==
  /\ call.n < MaxCalls
  /\ \E source_files_list \in SourceLists, target_file_path \in EngineTargets,
        ioError \in BOOLEAN :
       LET r == merge_docx_files(source_files_list, target_file_path, dirs, files, ioError)
       IN  /\ files' = r.files
           /\ call' = [n |-> call.n + 1,
                       source_files_list |-> source_files_list,
                       target_file_path |-> target_file_path,
                       before |-> files, message |-> r.message, saved |-> r.saved]
  /\ UNCHANGED <<dirs, shellVars>>

NextEngine == EngineCall

SpecEngine == Init /\ [][NextEngine]_vars

-----------------------------------------------------------------------------
(* Properties *)

\* name ends with ".docx" in any letter case, character by character.
EndsWithExtension(name) ==
  /\ Len(name) >= 5
  /\ name[Len(name) - 4] = "."
  /\ name[Len(name) - 3] \in {"d", "D"}
  /\ name[Len(name) - 2] \in {"o", "O"}
  /\ name[Len(name) - 1] \in {"c", "C"}
  /\ name[Len(name)] \in {"x", "X"}

\* name ends with one instance of the extension and not with two.
EndsWithOneExtension(name) ==
  /\ EndsWithExtension(name)
  /\ ~EndsWithExtension(SubSeq(name, 1, Len(name) - 5))

\* Where document k starts in the merged body, less one: the lengths of the
\* documents before it and one page break after each of them.
RECURSIVE Offset(_, _, _)
Offset(k, source_files_list, F) ==
  IF k = 1 THEN 0
  ELSE Offset(k - 1, source_files_list, F)
         + Len(Document(source_files_list[k - 1], F)) + 1

AllOpen(source_files_list, F) ==
  \A i \in 1..Len(source_files_list) : Opens(source_files_list[i], F)

IsFailureMessage(message) ==
  /\ message # <<>>
  /\ message[1] \in {"<Error: no .docx files to merge were found.>",
                     "<An error occurred while merging:>"}

\* C1: a successful merge of N readable documents saves exactly one document,
\* the target, whose body is document 1 and then, for each i in 2..N, one page
\* break immediately followed by document i, in list order: N-1 inserted page
\* breaks, none before the first document and none after the last.
C1_MergedContent ==
  (call.n > 0 /\ call.saved /\ AllOpen(call.source_files_list, call.before)) =>
    LET srcs == call.source_files_list
        N == Len(srcs)
        F0 == call.before
        t == Resolve(call.target_file_path)
        doc(k) == Document(srcs[k], F0)
    IN  /\ N >= 1
        /\ DOMAIN files = DOMAIN F0 \cup {t}
        /\ \A p \in DOMAIN F0 \ {t} : files[p] = F0[p]
        /\ files[t].ok
        /\ Len(files[t].body) = Offset(N, srcs, F0) + Len(doc(N))
        /\ \A k \in 1..N :
             /\ SubSeq(files[t].body, Offset(k, srcs, F0) + 1,
                       Offset(k, srcs, F0) + Len(doc(k))) = doc(k)
             /\ k > 1 => files[t].body[Offset(k, srcs, F0)] = PAGE_BREAK
        /\ N = 1 => files[t].body = doc(1)

\* C1 witness: three documents were merged in an order that is not the sorted one.
C1_Witness ==
  /\ call.n > 0 /\ call.saved
  /\ Len(call.source_files_list) = 3
  /\ call.source_files_list[1] = Join(DEFAULT_INPUT_DIR, <<"a">> \o DOCX)
  /\ call.source_files_list[2] = Join(DEFAULT_INPUT_DIR, <<"B", ".", "D", "O", "C", "X">>)

\* C2: a call with an empty source list, or with a source that cannot be opened
\* at any position, returns a failure message and has written nothing: every
\* file, the target included, is as it was before the call.
C2_FailureWritesNothing ==
  (call.n > 0 /\ (call.source_files_list = <<>>
                   \/ ~AllOpen(call.source_files_list, call.before))) =>
    /\ ~call.saved
    /\ IsFailureMessage(call.message)
    /\ files = call.before

\* C2 witness: the second source could not be opened and the target existed.
C2_Witness ==
  /\ call.n > 0
  /\ Len(call.source_files_list) >= 2
  /\ Opens(call.source_files_list[1], call.before)
  /\ ~Opens(call.source_files_list[2], call.before)
  /\ Resolve(call.target_file_path) \in DOMAIN call.before

\* C3: every scan yields exactly the entries whose name ends with ".docx" in any
\* letter case, each joined with the input folder, in ascending order of the
\* names; two scans of the same unchanged folder yield the same list.
C3_ScanSelectsSorted ==
  \A i \in 1..Len(scans) :
    LET sc == scans[i]
        src == sc.source_files
    IN  /\ {src[k] : k \in 1..Len(src)}
             = {Join(sc.input_path, n) : n \in {m \in sc.names : EndsWithExtension(m)}}
        /\ \A k \in 1..Len(src) : \A l \in 1..Len(src) :
             k < l => StrLess(Split(src[k]).tail, Split(src[l]).tail)
        /\ \A j \in 1..Len(scans) :
             (scans[j].input_path = sc.input_path /\ scans[j].names = sc.names)
               => scans[j].source_files = src

\* C3 witness: the same folder, holding two documents and notes, was scanned twice.
C3_Witness ==
  /\ Len(scans) = 2
  /\ scans[1].names = scans[2].names
  /\ scans[1].input_path = scans[2].input_path
  /\ <<"n", ".", "t", "x", "t">> \in scans[2].names
  /\ Len(scans[2].source_files) >= 2

\* C4 as stated: the filename used for the target always ends with exactly one
\* instance of the extension.
C4_ExactlyOneExtension ==
  \A i \in 1..Len(stack) : EndsWithOneExtension(stack[i].output_filename)

\* C4 amended: the filename used ends with the extension in some letter case; a
\* name that already ends with it is left unchanged, whatever precedes it; any
\* other name gets ".docx" appended once and then ends with exactly one
\* instance; normalizing the result again changes nothing; the target is that
\* name joined with the output folder.
C4_NormalizedFilename ==
  \A i \in 1..Len(stack) :
    LET given == output_filename_var
        used == stack[i].output_filename
    IN  /\ EndsWithExtension(used)
        /\ EndsWithExtension(given) => used = given
        /\ ~EndsWithExtension(given) => (used = given \o DOCX /\ EndsWithOneExtension(used))
        /\ NormalizeFilename(used) = used
        /\ stack[i].pc \in {"L156", "L158", "L162"}
             => stack[i].target_file = Join(stack[i].output_path, used)

\* C4 witness: a name with the extension in mixed case is the target's name.
C4_Witness ==
  /\ stack # <<>>
  /\ output_filename_var = <<"m", ".", "D", "o", "c", "X">>
  /\ Top.pc = "L158"

MergeCalls(events) == Len(SelectSeq(events, LAMBDA e : e = "merge_called"))
Happened(e) == \E i \in 1..Len(run.events) : run.events[i] = e

\* C5: in every invocation merge_docx_files is called at most once, and only
\* after, in this order, the input folder was found to be a directory, the
\* output folder was found or created, the listing succeeded and the source
\* list was non-empty; after a failed creation or with no eligible files the
\* shell reports it and does not call the merge.
C5_MergeOnlyAfterChecks ==
  /\ MergeCalls(run.events) <= 1
  /\ call.n <= run.n
  /\ Happened("merge_called") =>
       /\ \E o \in {"output_is_dir", "output_created"} :
            run.events = <<"input_is_dir", o, "listed", "nonempty", "merge_called">>
       /\ IsDir(run.input_path, dirs)
       /\ IsDir(run.output_path, dirs)
       /\ call.source_files_list # <<>>
  /\ (Happened("output_failed") \/ Happened("no_files")) =>
       /\ ~Happened("merge_called")
       /\ run.dialogs # <<>>

\* C5 witness: the merge was called after the output folder had been created.
C5_Witness ==
  run.events = <<"input_is_dir", "output_created", "listed", "nonempty", "merge_called">>

\* C6: after the merge returns, the success dialog is shown if and only if the
\* merge succeeded, and the error dialog on every failure; the success dialog
\* carries the count of merged files and the target path.
C6_DialogMatchesOutcome ==
  (run.outcome \in {"merged", "merge_failed"} /\ run.dialogs # <<>>) =>
    /\ run.dialogs = <<"showinfo">> <=> call.saved
    /\ ~call.saved => run.dialogs = <<"showerror">>
    /\ (call.saved /\ dialog # NoDialog) =>
         /\ Contains(dialog.message, Str(Len(call.source_files_list)))
         /\ Contains(dialog.message, call.target_file_path)

ErrorOutcomes == {"input_missing", "output_failed", "list_failed", "no_files", "merge_failed"}

\* C7: every invocation that ends in an error has shown a dialog and has set
\* the status line to a message for that error.
C7_StatusMirrorsError ==
  (run.ended /\ run.outcome \in ErrorOutcomes) =>
    /\ run.dialogs # <<>>
    /\ run.status_reports_outcome

\* C8: at most one invocation of start_merge_process is active at any time,
\* and so at most one merge is in flight.
C8_SingleInFlight == Len(stack) <= 1

\* C8 witness: a click is queued while an invocation is past update_idletasks
\* and about to call the merge.
C8_Witness == Len(stack) = 1 /\ Top.pc = "L156" /\ pending > 0

\* p is path or one of the directories above it.
IsAncestorOrSelf(p, path) ==
  \/ p = path
  \/ /\ Len(p) < Len(path)
     /\ SubSeq(path, 1, Len(p)) = p
     /\ path[Len(p) + 1] = "/"

EndedWithoutMerge == run.n > 0 /\ run.ended /\ ~Happened("merge_called")

\* C9 as stated: an invocation that returns without calling the merge leaves
\* the file system unchanged.
C9_NoMergeNoChange ==
  EndedWithoutMerge => (dirs = run.dirs0 /\ files = run.files0)

\* C9 amended: an invocation that returns without calling the merge creates,
\* changes and removes no file and removes no directory; the only directories
\* it can create are the output folder and the missing directories above it;
\* when it returns because the input folder is missing, nothing has changed.
C9_OnlyOutputFolderCreated ==
  EndedWithoutMerge =>
    /\ files = run.files0
    /\ run.dirs0 \subseteq dirs
    /\ \A d \in dirs \ run.dirs0 : IsAncestorOrSelf(d, Resolve(run.output_path))
    /\ run.outcome = "input_missing" => dirs = run.dirs0

\* C9 witness: no eligible files were found after the output folder was created.
C9_Witness ==
  /\ EndedWithoutMerge
  /\ run.outcome = "no_files"
  /\ dirs # run.dirs0

\* C10: in every merge the shell invokes, the target path is not an element of
\* the source list.
C10_TargetNotASource ==
  call.n > 0 =>
    \A i \in 1..Len(call.source_files_list) :
      call.source_files_list[i] # call.target_file_path

====
